---- MODULE Spec2Model ----
(***************************************************************************)
(* Model of app/src/main/cpp/mlt_wrapper.cpp, the JNI boundary of          *)
(* uc.ucworks.videosnap.MltHelper.  The translation unit defines eleven    *)
(* native entry points and no file-scope object.  Each entry point is one  *)
(* action; its arguments are drawn from small sets.  What a caller can     *)
(* observe of a call is the returned value, the exception left pending in  *)
(* the JNIEnv, the file system, and the state of the process.              *)
(***************************************************************************)
EXTENDS Integers, Sequences, FiniteSets, TLC

\* ---- bounds of the model ------------------------------------------------
MaxDur == 2        \* longest media duration, in frame intervals
MaxCoord == 1      \* largest jint coordinate passed to a call
MaxInputs == 2     \* longest jobjectArray passed to a call
MaxFrames == 2     \* last frame index at which a tracked region may leave

\* ---- input domains ------------------------------------------------------
Paths == {"a.mp4", "b.mp4"}
NoFile == 0
Contents == {NoFile} \cup (1 .. MaxDur)        \* a media file is its duration
Times == (0 - 1) .. (MaxDur + 1)               \* jdouble start/end/splitPoint
Coords == 0 .. MaxCoord                        \* jint x, y, keyframe values
Sizes == {1, 2}                                \* jint width, height
FontSizes == {12, 24}
Colors == {0, 255}
KnownEffects == {"grayscale", "sepia", "invert", "oldfilm"}
Effects == KnownEffects \cup {"vhs"}
Presets == {"720p", "1080p"}
Properties == {"opacity"}
Texts == {"", "hi"}
SpeedMaps == {"", "0=1;1=2"}
PathArrays == UNION {[1 .. n -> Paths] : n \in 0 .. MaxInputs}
KeyframeArrays == UNION {[1 .. n -> Coords] : n \in 0 .. 1}


\* ---- state --------------------------------------------------------------
VARIABLES
    fs,      \* file system: path -> NoFile or the duration of the media there
    proc,    \* objects held by the process on behalf of the native layer
    exc,     \* exception pending in the JNIEnv after the last call
    ret,     \* value returned by the last call
    call     \* the last call: entry point and arguments

vars == <<fs, proc, exc, ret, call>>

NoException == "none"
VoidReturn == [type |-> "void", utf |-> ""]
NoCall == [op |-> "none"]

\* env->NewStringUTF(bytes): a java.lang.String holding the given characters
\* (the allocation is taken to succeed).
NewStringUTF(bytes) == [type |-> "jstring", utf |-> bytes]

Init ==
    /\ fs \in [Paths -> Contents]
    /\ proc = {}
    /\ exc = NoException
    /\ ret = VoidReturn
    /\ call = NoCall

\* ---- the bodies of the entry points --------------------------------------
\* A body that is empty returns void, throws nothing, touches nothing.
EmptyBody ==
    /\ ret' = VoidReturn
    /\ UNCHANGED <<fs, proc, exc>>

getVideoInfoNative(filePath) ==
    /\ call' = [op |-> "getVideoInfo", filePath |-> filePath]
    /\ ret' = NewStringUTF("Duration: 0")
    /\ UNCHANGED <<fs, proc, exc>>

\* A trim that renders [start, end) of the input to outPath.
trimVideoNative_renders(inPath, outPath, start, end) ==
    /\ call' = [op |-> "trim", inPath |-> inPath, outPath |-> outPath,
                start |-> start, end |-> end]
    /\ ret' = VoidReturn
    /\ fs' = IF fs[inPath] # NoFile /\ 0 <= start /\ start < end
                  /\ end <= fs[inPath]
             THEN [fs EXCEPT ![outPath] = end - start]
             ELSE fs
    /\ UNCHANGED <<proc, exc>>

trimVideoNative(inPath, outPath, start, end) ==
    /\ call' = [op |-> "trim", inPath |-> inPath, outPath |-> outPath,
                start |-> start, end |-> end]
    /\ EmptyBody

splitVideoNative(inPath, outPath1, outPath2, splitPoint) ==
    /\ call' = [op |-> "split", inPath |-> inPath, outPath1 |-> outPath1,
                outPath2 |-> outPath2, splitPoint |-> splitPoint]
    /\ EmptyBody

applyEffectNative(inPath, outPath, effect) ==
    /\ call' = [op |-> "applyEffect", inPath |-> inPath, outPath |-> outPath,
                effect |-> effect]
    /\ EmptyBody

exportVideoNative(inPath, outPath, preset) ==
    /\ call' = [op |-> "export", inPath |-> inPath, outPath |-> outPath,
                preset |-> preset]
    /\ EmptyBody

mixAudioNative(inPaths, outPath) ==
    /\ call' = [op |-> "mixAudio", inPaths |-> inPaths, outPath |-> outPath]
    /\ EmptyBody

applyKeyframeEffectNative(inPath, outPath, property, keyframes) ==
    /\ call' = [op |-> "applyKeyframeEffect", inPath |-> inPath,
                outPath |-> outPath, property |-> property,
                keyframes |-> keyframes]
    /\ EmptyBody

applyTextOverlayNative(inPath, outPath, text, x, y, fontSize, color) ==
    /\ call' = [op |-> "applyTextOverlay", inPath |-> inPath,
                outPath |-> outPath, text |-> text, x |-> x, y |-> y,
                fontSize |-> fontSize, color |-> color]
    /\ EmptyBody

applyPiPNative(backgroundPath, foregroundPath, outPath, x, y, width, height) ==
    /\ call' = [op |-> "applyPiP", backgroundPath |-> backgroundPath,
                foregroundPath |-> foregroundPath, outPath |-> outPath,
                x |-> x, y |-> y, width |-> width, height |-> height]
    /\ EmptyBody

applySpeedRampNative(inPath, outPath, speedMap) ==
    /\ call' = [op |-> "applySpeedRamp", inPath |-> inPath,
                outPath |-> outPath, speedMap |-> speedMap]
    /\ EmptyBody

\* leavesAt is not an argument of the entry point: it is the frame index at
\* which the region (x, y, width, height) leaves the frame bounds in the
\* media at inPath, a fact about the input the body never looks at.
trackMotionNative(inPath, outPath, x, y, width, height, leavesAt) ==
    /\ call' = [op |-> "trackMotion", inPath |-> inPath, outPath |-> outPath,
                x |-> x, y |-> y, width |-> width, height |-> height,
                leavesAt |-> leavesAt]
    /\ ret' = NewStringUTF("")
    /\ UNCHANGED <<fs, proc, exc>>

Next ==
    \/ \E p \in Paths : getVideoInfoNative(p)
    \/ \E i, o \in Paths, s, e \in Times : trimVideoNative(i, o, s, e)
    \/ \E i, o1, o2 \in Paths, p \in Times : splitVideoNative(i, o1, o2, p)
    \/ \E i, o \in Paths, f \in Effects : applyEffectNative(i, o, f)
    \/ \E i, o \in Paths, p \in Presets : exportVideoNative(i, o, p)
    \/ \E is \in PathArrays, o \in Paths : mixAudioNative(is, o)
    \/ \E i, o \in Paths, p \in Properties, k \in KeyframeArrays :
          applyKeyframeEffectNative(i, o, p, k)
    \/ \E i, o \in Paths, t \in Texts, x, y \in Coords, sz \in FontSizes,
          c \in Colors :
          applyTextOverlayNative(i, o, t, x, y, sz, c)
    \/ \E b, f, o \in Paths, x, y \in Coords, w, h \in Sizes :
          applyPiPNative(b, f, o, x, y, w, h)
    \/ \E i, o \in Paths, m \in SpeedMaps : applySpeedRampNative(i, o, m)
    \/ \E i, o \in Paths, x, y \in Coords, w, h \in Sizes,
          k \in 0 .. MaxFrames :
          trackMotionNative(i, o, x, y, w, h, k)

Spec == Init /\ [][Next]_vars

\* ---- what a caller observes of the last call ------------------------------
VoidOps == {"trim", "split", "applyEffect", "export", "mixAudio",
            "applyKeyframeEffect", "applyTextOverlay", "applyPiP",
            "applySpeedRamp"}

\* The failure kinds a boundary operation may report.
ErrorKinds == {"NotFound", "UnsupportedFormat", "UnsupportedFilter",
               "InvalidParameter", "InvalidRange", "EmptyInput",
               "EncodeFailure", "DecodeFailure", "DiskWriteFailure",
               "Cancelled", "TrackingLost"}

\* A failure of kind k reaches the caller as a pending exception or as the
\* returned string.
FailsWith(k) == exc = k \/ ret = NewStringUTF(k)

Abs(n) == IF n < 0 THEN 0 - n ELSE n

\* The trajectory a returned string carries.  The empty string carries no
\* entry and no indicator; it is the only string trackMotionNative returns.
Decode(utf) == CASE utf = "" -> [entries |-> <<>>, lost |-> FALSE]

\* ---- C1 -------------------------------------------------------------------
\* C1: every entry point is a stub.  In every step, getVideoInfoNative
\* returns "Duration: 0", trackMotionNative returns "", each of the other
\* nine returns nothing, and no call changes a file, the process state or
\* the pending exception.
C1_AllStubs ==
    [][ /\ fs' = fs
        /\ proc' = proc
        /\ exc' = exc
        /\ call'.op = "getVideoInfo" => ret' = NewStringUTF("Duration: 0")
        /\ call'.op = "trackMotion" => ret' = NewStringUTF("")
        /\ call'.op \in VoidOps => ret' = VoidReturn ]_vars

\* A trim over a valid range of an existing media has returned, and the
\* output path still holds no file.
C1_Witness ==
    /\ call.op = "trim"
    /\ fs[call.inPath] # NoFile
    /\ 0 <= call.start /\ call.start < call.end /\ call.end <= fs[call.inPath]
    /\ call.outPath # call.inPath
    /\ fs[call.outPath] = NoFile
    /\ ret = VoidReturn
    /\ exc = NoException
    /\ proc = {}

\* ---- C2 -------------------------------------------------------------------
\* C2: no call of a boundary operation completes as a silent no-op: every
\* call either reports (a returned value or a failure kind) or has the
\* effect that is its success.
C2_NeverSilentNoOp ==
    [][ ~ ( /\ ret' = VoidReturn
            /\ exc' \notin ErrorKinds
            /\ fs' = fs
            /\ proc' = proc ) ]_vars

\* ---- C3 -------------------------------------------------------------------
\* C3: applyEffect with an effect name outside the known set fails with
\* UnsupportedFilter, no job is Running, and no file is created.
C3_UnknownEffectFails ==
    [][ (call'.op = "applyEffect" /\ call'.effect \notin KnownEffects)
        => /\ FailsWith("UnsupportedFilter")'
           /\ \A j \in proc' : j.state # "Running"
           /\ fs' = fs ]_vars

\* ---- C4 -------------------------------------------------------------------
\* C4: trim of an existing media of duration D over 0 <= start < end <= D
\* leaves at outPath a media of duration end - start (within one frame
\* interval); over any other range it fails with InvalidRange and writes
\* nothing.
C4_TrimDuration ==
    [][ (call'.op = "trim" /\ fs[call'.inPath] # NoFile)
        => IF /\ 0 <= call'.start
              /\ call'.start < call'.end
              /\ call'.end <= fs[call'.inPath]
           THEN /\ fs'[call'.outPath] # NoFile
                /\ Abs(fs'[call'.outPath] - (call'.end - call'.start)) <= 1
           ELSE /\ FailsWith("InvalidRange")'
                /\ fs' = fs ]_vars

\* ---- C5 -------------------------------------------------------------------
\* C5: split of an existing media of duration D at p strictly inside (0, D)
\* leaves [0, p) at outPath1 and [p, D) at outPath2, whose durations sum to
\* D; at any other p it fails with InvalidRange.
C5_SplitCovers ==
    [][ (/\ call'.op = "split"
         /\ fs[call'.inPath] # NoFile
         /\ call'.outPath1 # call'.outPath2)
        => IF 0 < call'.splitPoint /\ call'.splitPoint < fs[call'.inPath]
           THEN /\ fs'[call'.outPath1] = call'.splitPoint
                /\ fs'[call'.outPath2] = fs[call'.inPath] - call'.splitPoint
                /\ fs'[call'.outPath1] + fs'[call'.outPath2]
                      = fs[call'.inPath]
           ELSE FailsWith("InvalidRange")' ]_vars

\* ---- C6 -------------------------------------------------------------------
\* C6: an export of an existing media submits a job that starts Queued; a
\* job only moves Queued -> Running -> Completed or Failed, terminal states
\* are left by no step, and a job that failed validation is never Running.
LegalJobStep == {<<"Queued", "Running">>, <<"Running", "Completed">>,
                 <<"Running", "Failed">>}

C6_JobLifecycle ==
    [][ /\ (call'.op = "export" /\ fs[call'.inPath] # NoFile)
           => \E j \in proc' \ proc :
                 j.state = "Queued" /\ j.outPath = call'.outPath
        /\ \A j \in proc : \A k \in proc' :
              k.id = j.id => \/ k.state = j.state
                             \/ <<j.state, k.state>> \in LegalJobStep
        /\ \A k \in proc' : k.state = "Running" => k.valid ]_vars

\* ---- C10 ------------------------------------------------------------------
\* C10: trackMotion over a media in which the region leaves the frame bounds
\* at frame k returns a trajectory of exactly k entries together with the
\* TrackingLost indicator.
C10_TrajectoryEndsAtLoss ==
    call.op = "trackMotion"
    => /\ Len(Decode(ret.utf).entries) = call.leavesAt
       /\ Decode(ret.utf).lost
====
